---- MODULE Spec2Model ----
(***************************************************************************)
(* Model of the MiM Watcher daemon (src/main.py): the in-memory storage    *)
(* manager (seen history, subscriber registry, stats), the broadcast       *)
(* fan-out, the detection cycle check_once, the command handlers,          *)
(* poll_updates and the main scheduler loop.                               *)
(*                                                                         *)
(* The specifications share the variables and the operators:               *)
(*   Spec        the program as it is wired: one thread running main()     *)
(*   TimerSpec   main() with network calls that take time                  *)
(*   HealthSpec  main() beside the thread of the keep-alive server         *)
(*   LoopSpec    the loop of main() with the operator interrupt, under     *)
(*               weak fairness of the loop's statements                    *)
(*   SeenSpec    sequences of add_seen_news calls on one storage manager,  *)
(*               starting from an empty history                            *)
(*   ConcSpec    two threads calling check_once on one storage manager     *)
(*   FanoutSpec  one thread calling check_once while another thread calls  *)
(*               add_subscriber and remove_subscriber                      *)
(*   EscapeSpec  escape_html applied to a title                            *)
(*   EvictSpec   one thread calling check_once again and again while the   *)
(*               site publishes more items than the history holds          *)
(*   LoadSpec    the startup load of a storage manager from the            *)
(*               environment variables and the temp files                  *)
(***************************************************************************)
EXTENDS Integers, Sequences, FiniteSets, TLC

VARIABLES
    subscribers,      \* InMemoryStorageManager._subscribers
    seen_news,        \* InMemoryStorageManager._seen_news, most recent first
    stats,            \* the BotStats record
    now,              \* time.time()
    page,             \* what the watched page currently yields to fetch + parse
    env,              \* the environment a specification runs in (never changes)
    inbox,            \* updates pending on the Telegram side (getUpdates)
    arrived,          \* history: the update_ids of the inbound messages so far
    next_update_id,   \* the update_id the next inbound update gets
    offset,           \* main(): offset (the getUpdates cursor), None at start
    last_news_check,  \* main(): last_news_check
    pc,               \* per thread: the statement the thread is at
    loc,              \* per thread: the local variables of the running calls
    news_attempts,    \* history: per item key and chat, send_news_notification calls
    routed,           \* history: update_ids dispatched by poll_updates, in order
    calls,            \* history: keys passed to add_seen_news, in order
    sched,            \* history: when the scheduled cycles started and ended
    last              \* history: the most recent completed call and its outcome

vars == <<subscribers, seen_news, stats, now, page, env, inbox, arrived, next_update_id, offset,
          last_news_check, pc, loc, news_attempts, routed, calls, sched, last>>

----------------------------------------------------------------------------
(* Bounds of the model and configuration of the program.                   *)

\* Keys 1..MaxKey are offered to add_seen_news in SeenSpec (60 in spec.md).
MaxKey == 60
\* Calls of SeenSpec that repeat an earlier key instead of a new one.
MaxRepeat == 1
\* Inbound Telegram updates over a run of Spec.
MaxUpdates == 2
\* The clock of Spec stops advancing at MaxTime, that of TimerSpec at
\* TimerMaxTime.
MaxTime == 8
TimerMaxTime == 14
\* Requests the health endpoint serves over a run of HealthSpec.
MaxHits == 1
MaxTitle == 4
MaxLoad == 3

\* NEWS_INTERVAL and TELEGRAM_POLL_INTERVAL are read from the environment
\* (defaults 1800 and 5); the model runs the configuration 5 / 3 seconds.
NEWS_INTERVAL == 5
TELEGRAM_POLL_INTERVAL == 3
\* add_seen_news keeps self._seen_news[:50]
SEEN_CAP == 50

\* Python's None, where the other values are numbers
None == 0 - 1

\* no call of check_once in progress
NoCaller == "none"

\* Chat ids that write to the bot, and the item keys the page can show.
Chats == {41, 42, 43}
Keys == {1, 2}
\* parse_latest_item returned None
NoItem == 0
\* the chat whose messages the model varies least
FirstChat == CHOOSE c \in Chats : \A d \in Chats : c <= d
Threads == {"main", "aux"}

----------------------------------------------------------------------------
(* Sequences.                                                              *)

Min(a, b) == IF a <= b THEN a ELSE b

Max(a, b) == IF a >= b THEN a ELSE b

Take(s, n) == SubSeq(s, 1, Min(n, Len(s)))

InSeq(k, s) == \E i \in 1..Len(s) : s[i] = k

NoDuplicates(s) == \A i, j \in 1..Len(s) : s[i] = s[j] => i = j

----------------------------------------------------------------------------
(* InMemoryStorageManager: the seen history.                               *)

\* add_seen_news without the [:50] truncation
AddSeenNoTruncate(seen, news_key) ==
    IF ~InSeq(news_key, seen) THEN <<news_key>> \o seen ELSE seen

\* add_seen_news appending instead of inserting at the head
AddSeenAtTail(seen, news_key) ==
    IF ~InSeq(news_key, seen) THEN Take(seen \o <<news_key>>, SEEN_CAP) ELSE seen

\* add_seen_news: the list it leaves in self._seen_news
\* a history that never takes the key
AddSeenNothing(seen, news_key) == seen

\* a history cut one entry short of the cap
AddSeenCapOneLess(seen, news_key) ==
    IF ~InSeq(news_key, seen)
    THEN Take(<<news_key>> \o seen, SEEN_CAP - 1)
    ELSE seen

\* add_seen_news: the history after the call
AddSeenNews(seen, news_key) ==
    IF ~InSeq(news_key, seen)
    THEN Take(<<news_key>> \o seen, SEEN_CAP)
    ELSE seen

\* add_seen_news always reporting "newly added"
AddSeenAlwaysTrue(seen, news_key) == TRUE

\* add_seen_news: its return value
AddSeenNewsResult(seen, news_key) == ~InSeq(news_key, seen)

\* is_news_seen never finding the key
IsNewsSeenNever(seen, news_key) == FALSE

\* is_news_seen
IsNewsSeen(seen, news_key) == InSeq(news_key, seen)

----------------------------------------------------------------------------
(* InMemoryStorageManager: the subscriber registry.                        *)

\* add_subscriber: the set it leaves in self._subscribers
AddSubscriber(subs, chat_id) == subs \cup {chat_id}

\* add_subscriber always reporting a new subscription
AddSubscriberAlwaysTrue(subs, chat_id) == TRUE

\* add_subscriber: its return value
AddSubscriberResult(subs, chat_id) == chat_id \notin subs

\* remove_subscriber: the set it leaves in self._subscribers
RemoveSubscriber(subs, chat_id) == subs \ {chat_id}

\* remove_subscriber always reporting a removal
RemoveSubscriberAlwaysTrue(subs, chat_id) == TRUE

\* remove_subscriber: its return value
RemoveSubscriberResult(subs, chat_id) == chat_id \in subs

\* is_subscriber
IsSubscriber(subs, chat_id) == chat_id \in subs

\* list(self._subscribers): the set as a list, here in ascending order
RECURSIVE SetToList(_)
SetToList(S) ==
    IF S = {} THEN <<>>
    ELSE LET x == CHOOSE x \in S : \A y \in S : x <= y
         IN  <<x>> \o SetToList(S \ {x})

\* get_subscribers
GetSubscribers(subs) == SetToList(subs)

\* broadcast iterating over the live set instead of the list copy
RecipientsLive(snapshot, live) == live

\* broadcast: the chats its for loop runs over, given the list that
\* get_subscribers returned (a copy) and the registry as it is now
Recipients(snapshot, live) == snapshot

\* broadcast counting every attempt as a success
SentIncrementAttempts(successful_sends, attempted) == Cardinality(attempted)

\* broadcast: what it adds to stats.total_news_sent
SentIncrement(successful_sends, attempted) == successful_sends

----------------------------------------------------------------------------
(* Values the specifications start from.                                   *)

\* BotStats(start_time=bot_start_time), the dataclass defaults
InitStats(t) ==
    [start_time |-> t, total_news_sent |-> 0, total_commands_processed |-> 0,
     last_news_time |-> None, last_error_time |-> None, keep_alive_hits |-> 0]

\* the error stamp forgotten
StampNothing(s, t) == s

\* stats.last_error_time = time.time()
StampError(s, t) == [s EXCEPT !.last_error_time = t]

\* no call in progress
NoLocals ==
    [item |-> NoItem, subscribers |-> {}, attempted |-> {}, delivered |-> {},
     successful_sends |-> 0, caller |-> NoCaller, chat |-> None, batch |-> <<>>,
     now |-> 0]

\* no scheduled cycle and no loop iteration yet
NoSched ==
    [sample |-> None, prev_sample |-> None, start |-> None, end |-> None,
     prev_start |-> None, prev_end |-> None]

NoAttempts == [k \in Keys |-> [c \in Chats |-> 0]]

----------------------------------------------------------------------------
(* SeenSpec: calls of add_seen_news on an empty history.                   *)

\* the next key that was never passed to add_seen_news
FreshKey == Len(calls) + 1 - Cardinality({i \in 1..Len(calls) : \E j \in 1..(i - 1) : calls[j] = calls[i]})

\* calls so far that repeated an earlier key
Repeats == Len(calls) - (FreshKey - 1)

EvictedKeys == {calls[i] : i \in 1..Len(calls)} \ {seen_news[i] : i \in 1..Len(seen_news)}

\* keys offered again: the newest and the oldest of the history, and the
\* key that left the history last
RepeatKeys ==
    (IF seen_news = <<>> THEN {} ELSE {seen_news[1], seen_news[Len(seen_news)]})
    \cup (IF EvictedKeys = {} THEN {}
          ELSE {CHOOSE k \in EvictedKeys : \A e \in EvictedKeys : e <= k})

SeenInit ==
    /\ subscribers = {}
    /\ seen_news = <<>>
    /\ stats = InitStats(0)
    /\ now = 0
    /\ page = NoItem
    /\ env = [chats |-> {}, keys |-> {}, texts |-> {}, durations |-> {0}, max_time |-> 0,
              ops |-> [t \in Threads |-> {}]]
    /\ inbox = <<>>
    /\ arrived = {}
    /\ next_update_id = 1
    /\ offset = None
    /\ last_news_check = 0
    /\ pc = [t \in Threads |-> "idle"]
    /\ loc = [t \in Threads |-> NoLocals]
    /\ news_attempts = NoAttempts
    /\ routed = <<>>
    /\ calls = <<>>
    /\ sched = NoSched
    /\ last = [op |-> "init", key |-> 0, ret |-> FALSE]

SeenUnchanged ==
    UNCHANGED <<subscribers, stats, now, page, env, inbox, arrived, next_update_id, offset,
                last_news_check, pc, loc, news_attempts, routed, sched>>

\* storage.add_seen_news(news_key)
CallAddSeenNews(news_key) ==
    /\ seen_news' = AddSeenNews(seen_news, news_key)
    /\ last' = [op |-> "add_seen_news", key |-> news_key,
                ret |-> AddSeenNewsResult(seen_news, news_key)]
    /\ calls' = Append(calls, news_key)
    /\ SeenUnchanged

SeenAddFresh ==
    /\ FreshKey <= MaxKey
    /\ CallAddSeenNews(FreshKey)

\* a key is offered again right after startup or around the cap, where a
\* repeated key meets a short history, a full one, or an evicted key
RepeatWindow == Len(seen_news) <= 2 \/ Len(seen_news) >= SEEN_CAP - 1

SeenAddRepeat ==
    /\ Repeats < MaxRepeat
    /\ RepeatWindow
    /\ \E k \in RepeatKeys : CallAddSeenNews(k)

SeenNext == SeenAddFresh \/ SeenAddRepeat

SeenSpec == SeenInit /\ [][SeenNext]_vars

----------------------------------------------------------------------------
(* Claims about the seen history.                                          *)

\* C2: in every state reached from an empty seen history by add_seen_news
\* calls, the history holds no key twice and at most 50 keys.
C2_SeenHistoryInvariant ==
    /\ NoDuplicates(seen_news)
    /\ Len(seen_news) <= 50

\* a 51st distinct key was added, and an evicted key was added again
C2_Witness ==
    /\ Len(seen_news) = 50
    /\ Len(calls) > 51
    /\ Repeats > 0
    /\ last.op = "add_seen_news" /\ last.ret = TRUE

\* C9: the first add_seen_news(k) returns True; a later add_seen_news(k)
\* made while k is in the history returns False and leaves the history as
\* it was.
C9_MarkSeenIdempotent ==
    [][calls' # calls =>
         LET k == calls'[Len(calls')] IN
           /\ last'.op = "add_seen_news" /\ last'.key = k
           /\ (~InSeq(k, calls) => last'.ret = TRUE /\ InSeq(k, seen_news'))
           /\ (InSeq(k, calls) /\ InSeq(k, seen_news)
                 => last'.ret = FALSE /\ seen_news' = seen_news)]_vars

\* a key was added a second time while it was still in the history
C9_Witness ==
    /\ last.op = "add_seen_news" /\ last.ret = FALSE
    /\ Len(calls) >= 2
    /\ InSeq(calls[Len(calls)], SubSeq(calls, 1, Len(calls) - 1))
    /\ Len(seen_news) > 1

\* C10: after N distinct keys were added to an empty history, the history
\* is the min(N, 50) keys added last, the most recent first.
C10_Eviction ==
    NoDuplicates(calls) =>
        /\ Len(seen_news) = Min(Len(calls), 50)
        /\ \A i \in 1..Len(seen_news) : seen_news[i] = calls[Len(calls) + 1 - i]

\* 60 distinct keys were added
C10_Witness ==
    /\ Len(calls) = 60
    /\ NoDuplicates(calls)
    /\ Len(seen_news) = 50
    /\ seen_news[1] = calls[60] /\ seen_news[50] = calls[11]

----------------------------------------------------------------------------
(* check_once and broadcast, run by thread t.  A call is entered with      *)
(* loc[t].caller telling where it returns: "sched" (main's loop),          *)
(* "force" (handle_force_command) or "api" (a direct call).                *)

\* the return of check_once to its caller; main() then sets
\* last_news_check = now (the sample taken before the call) and sleeps.
\* When check_once raises instead, main() skips that assignment and its
\* except clause sleeps; handle_force_command catches the exception.
\* a timer that every completed cycle restarts, the forced one from the
\* time it ended
LastNewsCheckAnyCaller(caller, outcome, sample, end_time, old) ==
    IF outcome = "raised" THEN old
    ELSE IF caller = "sched" THEN sample
    ELSE IF caller = "force" THEN end_time
    ELSE old

\* last_news_check after check_once returned to `caller`: the main loop
\* assigns it the `now` it sampled before the call; handle_force_command
\* has no access to it
LastNewsCheckAfter(caller, outcome, sample, end_time, old) ==
    IF caller = "sched" /\ outcome # "raised" THEN sample ELSE old

ReturnFromCheckOnce(t, item, outcome, end_time) ==
    /\ last' = [op |-> "check_once", thread |-> t, item |-> item,
                outcome |-> outcome,
                recipients |-> IF outcome = "broadcast" THEN loc[t].subscribers ELSE {},
                delivered |-> IF outcome = "broadcast" THEN loc[t].delivered ELSE {},
                sent_before |-> stats.total_news_sent]
    \* the locals of check_once and broadcast end with the call
    /\ loc' = [loc EXCEPT ![t].item = NoItem, ![t].subscribers = {},
                          ![t].attempted = {}, ![t].delivered = {},
                          ![t].successful_sends = 0, ![t].caller = NoCaller]
    /\ CASE loc[t].caller = "sched" ->
              /\ pc' = [pc EXCEPT ![t] = IF outcome = "raised" THEN "error_sleep"
                                         ELSE "sleep"]
              /\ sched' =
                    IF outcome = "raised" THEN sched
                    ELSE [sched EXCEPT !.end = end_time]
         [] loc[t].caller = "force" ->
              /\ pc' = [pc EXCEPT ![t] = "force_reply"]
              /\ UNCHANGED sched
         [] OTHER ->
              /\ pc' = [pc EXCEPT ![t] = "idle"]
              /\ UNCHANGED sched
    /\ last_news_check' = LastNewsCheckAfter(loc[t].caller, outcome, loc[t].now,
                                             end_time, last_news_check)

\* html = fetch_page(MIM_URL); item = parse_latest_item(html)
CheckOnceFetch(t) ==
    /\ pc[t] = "co_fetch"
    /\ \E d \in env.durations, ok \in BOOLEAN :
          /\ now + d <= env.max_time
          /\ now' = now + d
          /\ IF ~ok
             THEN /\ stats' = StampError(stats, now + d)
                  /\ ReturnFromCheckOnce(t, NoItem, "fetch_error", now + d)
             ELSE IF page = NoItem
             THEN /\ ReturnFromCheckOnce(t, NoItem, "no_item", now + d)
                  /\ UNCHANGED stats
             ELSE /\ loc' = [loc EXCEPT ![t].item = page]
                  /\ pc' = [pc EXCEPT ![t] = "co_seen"]
                  /\ UNCHANGED <<stats, last_news_check, sched, last>>
    /\ UNCHANGED <<subscribers, seen_news, page, env, inbox, arrived, next_update_id, offset,
                   news_attempts, routed, calls>>

\* parse_latest_item raises, outside the try of check_once: the exception
\* reaches the caller; the except clause of main()'s loop stamps
\* last_error_time
CheckOnceRaises(t) ==
    /\ pc[t] = "co_fetch"
    /\ \E d \in env.durations :
          /\ now + d <= env.max_time
          /\ now' = now + d
          /\ stats' = IF loc[t].caller = "sched"
                      THEN StampError(stats, now + d)
                      ELSE stats
          /\ ReturnFromCheckOnce(t, NoItem, "raised", now + d)
    /\ UNCHANGED <<subscribers, seen_news, page, env, inbox, arrived, next_update_id, offset,
                   news_attempts, routed, calls>>

\* if storage.is_news_seen(item.key): return
CheckOnceSeen(t) ==
    /\ pc[t] = "co_seen"
    /\ IF IsNewsSeen(seen_news, loc[t].item)
       THEN ReturnFromCheckOnce(t, loc[t].item, "seen", now)
       ELSE /\ pc' = [pc EXCEPT ![t] = "co_add"]
            /\ UNCHANGED <<last_news_check, sched, last, loc>>
    /\ UNCHANGED <<subscribers, seen_news, stats, now, page, env, inbox, arrived,
                   next_update_id, offset, news_attempts, routed, calls>>

\* storage.add_seen_news(item.key), its result dropped
CheckOnceAdd(t) ==
    /\ pc[t] = "co_add"
    /\ seen_news' = AddSeenNews(seen_news, loc[t].item)
    /\ calls' = Append(calls, loc[t].item)
    /\ pc' = [pc EXCEPT ![t] = "bc_snap"]
    /\ UNCHANGED <<subscribers, stats, now, page, env, inbox, arrived, next_update_id, offset,
                   last_news_check, loc, news_attempts, routed, sched, last>>

\* broadcast: subscribers = storage.get_subscribers(); successful_sends = 0
BroadcastSnapshot(t) ==
    /\ pc[t] = "bc_snap"
    /\ loc' = [loc EXCEPT ![t].subscribers = subscribers,
                          ![t].attempted = {},
                          ![t].delivered = {},
                          ![t].successful_sends = 0]
    /\ pc' = [pc EXCEPT ![t] = "bc_send"]
    /\ UNCHANGED <<subscribers, seen_news, stats, now, page, env, inbox, arrived,
                   next_update_id, offset, last_news_check, news_attempts, routed,
                   calls, sched, last>>

\* the chats the for loop of broadcast has still to visit
ToVisit(t) == Recipients(loc[t].subscribers, subscribers) \ loc[t].attempted

\* one pass of the for loop: send_news_notification(item, chat_id)
\* succeeds or fails; the loop ends when no chat is left
BroadcastSend(t) ==
    /\ pc[t] = "bc_send"
    /\ IF ToVisit(t) = {}
       THEN /\ pc' = [pc EXCEPT ![t] = "bc_done"]
            /\ UNCHANGED <<loc, news_attempts>>
       ELSE \E chat_id \in ToVisit(t), ok \in BOOLEAN :
              /\ loc' = [loc EXCEPT
                    ![t].attempted = @ \cup {chat_id},
                    ![t].delivered = IF ok THEN @ \cup {chat_id} ELSE @,
                    ![t].successful_sends = IF ok THEN @ + 1 ELSE @]
              /\ news_attempts' =
                    [news_attempts EXCEPT ![loc[t].item][chat_id] = @ + 1]
              /\ UNCHANGED pc
    /\ UNCHANGED <<subscribers, seen_news, stats, now, page, env, inbox, arrived,
                   next_update_id, offset, last_news_check, routed, calls, sched, last>>

\* stats.total_news_sent += successful_sends; stats.last_news_time =
\* time.time(); storage.save_stats(stats); check_once returns
BroadcastDone(t) ==
    /\ pc[t] = "bc_done"
    /\ stats' = [stats EXCEPT
          !.total_news_sent = @ + SentIncrement(loc[t].successful_sends, loc[t].attempted),
          !.last_news_time = now]
    /\ ReturnFromCheckOnce(t, loc[t].item, "broadcast", now)
    /\ UNCHANGED <<subscribers, seen_news, now, page, env, inbox, arrived, next_update_id,
                   offset, news_attempts, routed, calls>>

\* the site puts another item (or none) at the top of the page; the main
\* loop reads the page only after its poll and tick statements, so a change
\* at another statement is the same change at the next of these
Publish ==
    /\ pc["main"] \in {"idle", "poll", "tick"}
    /\ \E k \in (env.keys \cup {NoItem}) \ {page} : page' = k
    /\ UNCHANGED <<subscribers, seen_news, stats, now, env, inbox, arrived, next_update_id,
                   offset, last_news_check, pc, loc, news_attempts, routed, calls,
                   sched, last>>

----------------------------------------------------------------------------
(* Direct calls of the storage and detection API by a thread that is at    *)
(* no statement of main() (ConcSpec, FanoutSpec).                          *)

\* check_once(storage, stats) called on thread t
CallCheckOnce(t) ==
    /\ pc[t] = "idle"
    /\ "check_once" \in env.ops[t]
    /\ pc' = [pc EXCEPT ![t] = "co_fetch"]
    /\ loc' = [loc EXCEPT ![t].caller = "api"]
    /\ UNCHANGED <<subscribers, seen_news, stats, now, page, env, inbox, arrived,
                   next_update_id, offset, last_news_check, news_attempts, routed,
                   calls, sched, last>>

\* storage.add_subscriber(chat_id) called on thread t
CallAddSubscriber(t) ==
    /\ pc[t] = "idle"
    /\ "registry" \in env.ops[t]
    /\ \E chat_id \in env.chats :
          /\ subscribers' = AddSubscriber(subscribers, chat_id)
          /\ last' = [op |-> "add_subscriber", thread |-> t, chat |-> chat_id,
                      ret |-> AddSubscriberResult(subscribers, chat_id)]
    /\ UNCHANGED <<seen_news, stats, now, page, env, inbox, arrived, next_update_id, offset,
                   last_news_check, pc, loc, news_attempts, routed, calls, sched>>

\* storage.remove_subscriber(chat_id) called on thread t
CallRemoveSubscriber(t) ==
    /\ pc[t] = "idle"
    /\ "registry" \in env.ops[t]
    /\ \E chat_id \in env.chats :
          /\ subscribers' = RemoveSubscriber(subscribers, chat_id)
          /\ last' = [op |-> "remove_subscriber", thread |-> t, chat |-> chat_id,
                      ret |-> RemoveSubscriberResult(subscribers, chat_id)]
    /\ UNCHANGED <<seen_news, stats, now, page, env, inbox, arrived, next_update_id, offset,
                   last_news_check, pc, loc, news_attempts, routed, calls, sched>>

\* what every specification starts from, but for env, subscribers and pc
InitCommon ==
    /\ seen_news = <<>>
    /\ stats = InitStats(now)
    /\ page = NoItem
    /\ inbox = <<>>
    /\ arrived = {}
    /\ next_update_id = 1
    /\ offset = None
    /\ last_news_check = 0
    /\ loc = [t \in Threads |-> NoLocals]
    /\ news_attempts = NoAttempts
    /\ routed = <<>>
    /\ calls = <<>>
    /\ sched = NoSched
    /\ last = [op |-> "init"]

\* ConcSpec: a scheduled and a forced detection cycle on two threads
ConcInit ==
    /\ now = 0
    /\ env = [chats |-> {41, 42}, keys |-> {1}, texts |-> {}, durations |-> {0}, max_time |-> 0,
              ops |-> [t \in Threads |-> {"check_once"}]]
    /\ subscribers \in SUBSET {41, 42}
    /\ pc = [t \in Threads |-> "idle"]
    /\ InitCommon

ConcNext ==
    \/ \E t \in Threads : CallCheckOnce(t)
    \/ \E t \in Threads : CheckOnceFetch(t)
    \/ \E t \in Threads : CheckOnceRaises(t)
    \/ \E t \in Threads : CheckOnceSeen(t)
    \/ \E t \in Threads : CheckOnceAdd(t)
    \/ \E t \in Threads : BroadcastSnapshot(t)
    \/ \E t \in Threads : BroadcastSend(t)
    \/ \E t \in Threads : BroadcastDone(t)
    \/ Publish

ConcSpec == ConcInit /\ [][ConcNext]_vars

\* FanoutSpec: one thread runs detection cycles while another thread
\* subscribes and unsubscribes chats
FanoutInit ==
    /\ now = 0
    /\ env = [chats |-> Chats, keys |-> {1}, texts |-> {}, durations |-> {0}, max_time |-> 0,
              ops |-> [t \in Threads |->
                         IF t = "main" THEN {"check_once"} ELSE {"registry"}]]
    /\ subscribers \in SUBSET Chats
    /\ pc = [t \in Threads |-> "idle"]
    /\ InitCommon

FanoutNext ==
    \/ CallCheckOnce("main")
    \/ CheckOnceFetch("main")
    \/ CheckOnceRaises("main")
    \/ CheckOnceSeen("main")
    \/ CheckOnceAdd("main")
    \/ BroadcastSnapshot("main")
    \/ BroadcastSend("main")
    \/ BroadcastDone("main")
    \/ CallAddSubscriber("aux")
    \/ CallRemoveSubscriber("aux")
    \/ Publish

FanoutSpec == FanoutInit /\ [][FanoutNext]_vars

----------------------------------------------------------------------------
(* poll_updates and the command handlers, run by the main thread.          *)

NoMessage == "no_message"

\* the texts poll_updates tells apart, after strip().lower(); "ciao"
\* stands for every other text, NoMessage for an update without a message
AllTexts ==
    {"/start", "/stop", "/help", "/last", "/next", "/force", "/stats", "ciao",
     NoMessage}

\* offset or 0
OffsetVal(o) == IF o = None THEN 0 ELSE o

\* the cursor left on the update itself
OffsetOnUpdate(update_id) == update_id

\* offset = update["update_id"] + 1
OffsetAfter(update_id) == update_id + 1

\* the updates getUpdates returns for the cursor o
BatchFor(o) == SelectSeq(inbox, LAMBDA u : u.update_id >= OffsetVal(o))

\* an update reaches Telegram; poll_updates sees it at its next getUpdates
Arrive ==
    /\ pc["main"] = "poll"
    /\ next_update_id <= MaxUpdates
    /\ \E c \in env.chats, text \in env.texts :
          \* only /start and /stop depend on which chat sends them
          /\ text \in {"/start", "/stop"} \/ c = FirstChat
          /\ LET u == [update_id |-> next_update_id, chat |-> c, text |-> text] IN
               /\ inbox' = Append(inbox, u)
               /\ arrived' = IF text = NoMessage THEN arrived
                             ELSE arrived \cup {u.update_id}
    /\ next_update_id' = next_update_id + 1
    /\ UNCHANGED <<subscribers, seen_news, stats, now, page, env, offset,
                   last_news_check, pc, loc, news_attempts, routed, calls, sched, last>>

\* requests.get(getUpdates) answers: Telegram drops the updates below the
\* cursor and returns the others
PollOk ==
    /\ pc["main"] = "poll"
    /\ \E d \in env.durations :
          /\ now + d <= env.max_time
          /\ now' = now + d
    /\ inbox' = BatchFor(offset)
    /\ loc' = [loc EXCEPT !["main"].batch = BatchFor(offset)]
    /\ pc' = [pc EXCEPT !["main"] = "route"]
    /\ last' = [op |-> "getUpdates", ok |-> TRUE]
    /\ UNCHANGED <<subscribers, seen_news, stats, page, env, arrived, next_update_id,
                   offset, last_news_check, news_attempts, routed, calls, sched>>

\* getUpdates raises, or answers ok = false: poll_updates returns offset
PollFail ==
    /\ pc["main"] = "poll"
    /\ \E d \in env.durations :
          /\ now + d <= env.max_time
          /\ now' = now + d
    /\ pc' = [pc EXCEPT !["main"] = "tick"]
    /\ last' = [op |-> "getUpdates", ok |-> FALSE]
    /\ UNCHANGED <<subscribers, seen_news, stats, page, env, inbox, arrived,
                   next_update_id, offset, last_news_check, loc, news_attempts,
                   routed, calls, sched>>

\* the router taking any branch, whatever the text
DispatchAnyText(text) ==
    /\ pc["main"] = "route"
    /\ loc["main"].batch # <<>>
    /\ Head(loc["main"].batch).text # "no_message"

\* a chain whose /help branch also takes the texts no branch names
DispatchUnknownAsHelp(text) ==
    /\ pc["main"] = "route"
    /\ loc["main"].batch # <<>>
    /\ \/ Head(loc["main"].batch).text = text
       \/ text = "/help" /\ Head(loc["main"].batch).text = "ciao"

\* the for loop of poll_updates is at an update with the text `text`
Dispatch(text) ==
    /\ pc["main"] = "route"
    /\ loc["main"].batch # <<>>
    /\ Head(loc["main"].batch).text = text

\* the batch is exhausted: return offset
RouteReturn ==
    /\ pc["main"] = "route"
    /\ loc["main"].batch = <<>>
    /\ pc' = [pc EXCEPT !["main"] = "tick"]
    /\ UNCHANGED <<subscribers, seen_news, stats, now, page, env, inbox, arrived,
                   next_update_id, offset, last_news_check, loc, news_attempts,
                   routed, calls, sched, last>>

\* msg = update.get("message"); if not msg: continue
RouteNoMessage ==
    /\ Dispatch(NoMessage)
    /\ offset' = OffsetAfter(Head(loc["main"].batch).update_id)
    /\ loc' = [loc EXCEPT !["main"].batch = Tail(@)]
    /\ UNCHANGED <<subscribers, seen_news, stats, now, page, env, inbox, arrived,
                   next_update_id, last_news_check, pc, news_attempts, routed,
                   calls, sched, last>>

\* the command counter left as it was
CountNothing(s) == s

\* stats.total_commands_processed += 1; storage.save_stats(stats)
CountCommand(s) == [s EXCEPT !.total_commands_processed = @ + 1]

\* what poll_updates does with every update that carries a message: the
\* cursor moves past it, the command counter is incremented and saved, and
\* the handler of its text runs and sends `replies`
Handled(replies, ret) ==
    LET u == Head(loc["main"].batch) IN
      /\ offset' = OffsetAfter(u.update_id)
      /\ routed' = Append(routed, u.update_id)
      /\ stats' = CountCommand(stats)
      /\ loc' = [loc EXCEPT !["main"].batch = Tail(@)]
      /\ last' = [op |-> u.text, chat |-> u.chat, replies |-> replies, ret |-> ret,
                  commands |-> CountCommand(stats).total_commands_processed, raised |-> FALSE]
      /\ UNCHANGED <<seen_news, page, env, inbox, arrived, next_update_id,
                     last_news_check, pc, news_attempts, calls, sched>>

\* the reply showing only an item that is not in the seen history
FetchReplyUnseenOnly(ok, error, none, item) ==
    IF ~ok THEN error
    ELSE IF page = NoItem \/ IsNewsSeen(seen_news, page) THEN none
    ELSE item

\* the reply that takes a failed fetch for a page without an item
FetchReplyNoApology(ok, error, none, item) ==
    IF page = NoItem THEN none ELSE item

\* the reply of the welcome preview and of /last: fetch_page raises, or
\* parse_latest_item finds an item or none
FetchReply(ok, error, none, item) ==
    IF ~ok THEN error ELSE IF page = NoItem THEN none ELSE item

\* handle_start_command(chat_id, storage)
HandleStart ==
    /\ Dispatch("/start")
    /\ LET chat_id == Head(loc["main"].batch).chat IN
         /\ subscribers' = AddSubscriber(subscribers, chat_id)
         /\ IF AddSubscriberResult(subscribers, chat_id)
            THEN \E d \in env.durations, ok \in BOOLEAN :
                   \* time.sleep(1), then the fetch of the preview
                   /\ now + 1 + d <= env.max_time
                   /\ now' = now + 1 + d
                   /\ Handled(<<"welcome", "preview_notice",
                                FetchReply(ok, "preview_error", "preview_none",
                                           "preview_item")>>, TRUE)
            ELSE /\ Handled(<<"already_subscribed">>, FALSE)
                 /\ UNCHANGED now

\* handle_stop_command(chat_id, storage)
HandleStop ==
    /\ Dispatch("/stop")
    /\ LET chat_id == Head(loc["main"].batch).chat IN
         /\ subscribers' = RemoveSubscriber(subscribers, chat_id)
         /\ IF RemoveSubscriberResult(subscribers, chat_id)
            THEN Handled(<<"bye">>, TRUE)
            ELSE Handled(<<"not_subscribed">>, FALSE)
    /\ UNCHANGED now

\* handle_help_command(chat_id, storage)
HandleHelp ==
    /\ Dispatch("/help")
    /\ Handled(<<"help">>, None)
    /\ UNCHANGED <<subscribers, now>>

\* handle_last_command(chat_id)
HandleLast ==
    /\ Dispatch("/last")
    /\ \E d \in env.durations, ok \in BOOLEAN :
          /\ now + d <= env.max_time
          /\ now' = now + d
          /\ Handled(<<"last_searching",
                       FetchReply(ok, "last_error", "last_none", "last_item")>>, None)
    /\ UNCHANGED subscribers

\* time_remaining = max(0, NEWS_INTERVAL - time_since_last_check)
TimeRemaining == Max(0, NEWS_INTERVAL - (now - last_news_check))

\* handle_next_command(chat_id, last_news_check)
HandleNext ==
    /\ Dispatch("/next")
    /\ IF TimeRemaining <= 0
       THEN Handled(<<"next_imminent">>, 0)
       ELSE Handled(<<"next_remaining">>, TimeRemaining)
    /\ UNCHANGED <<subscribers, now>>

\* handle_stats_command(chat_id, storage, stats)
HandleStats ==
    /\ Dispatch("/stats")
    /\ Handled(<<"stats">>, None)
    /\ UNCHANGED <<subscribers, now>>

\* the else branch: the unknown-command reply
HandleUnknown ==
    /\ Dispatch("ciao")
    /\ Handled(<<"unknown">>, None)
    /\ UNCHANGED <<subscribers, now>>

\* handle_force_command, up to its call of check_once(storage, stats)
HandleForce ==
    /\ Dispatch("/force")
    /\ LET u == Head(loc["main"].batch) IN
         /\ offset' = OffsetAfter(u.update_id)
         /\ routed' = Append(routed, u.update_id)
         /\ stats' = CountCommand(stats)
         /\ loc' = [loc EXCEPT !["main"].batch = Tail(@),
                               !["main"].caller = "force",
                               !["main"].chat = u.chat]
         /\ last' = [op |-> "/force", chat |-> u.chat, replies |-> <<"force_started">>,
                     ret |-> None, commands |-> CountCommand(stats).total_commands_processed,
                     raised |-> FALSE]
    /\ pc' = [pc EXCEPT !["main"] = "co_fetch"]
    /\ UNCHANGED <<subscribers, seen_news, now, page, env, inbox, arrived,
                   next_update_id, last_news_check, news_attempts, calls, sched>>

\* a completion text that tells whether the cycle broadcast an item
ForceReplyTextByOutcome(outcome) ==
    IF outcome = "raised" THEN "force_error"
    ELSE IF outcome = "broadcast" THEN "force_found"
    ELSE "force_completed"

\* the text handle_force_command sends after its call of check_once: the
\* error text when check_once raised, else the one completion text
ForceReplyText(outcome) ==
    IF outcome = "raised" THEN "force_error" ELSE "force_completed"

\* handle_force_command after check_once returned: the completion text,
\* or the error text of its except clause
ForceReply ==
    /\ pc["main"] = "force_reply"
    /\ last' = [op |-> "/force", chat |-> loc["main"].chat,
                replies |-> <<"force_started", ForceReplyText(last.outcome)>>,
                ret |-> None, commands |-> stats.total_commands_processed,
                raised |-> FALSE, cycle |-> last.outcome]
    /\ loc' = [loc EXCEPT !["main"].chat = None]
    /\ pc' = [pc EXCEPT !["main"] = "route"]
    /\ UNCHANGED <<subscribers, seen_news, stats, now, page, env, inbox, arrived,
                   next_update_id, offset, last_news_check, news_attempts, routed,
                   calls, sched>>

\* a handler raises: the except clause of poll_updates returns the cursor,
\* which is already past the update
HandlerRaises ==
    /\ pc["main"] = "route"
    /\ loc["main"].batch # <<>>
    /\ Head(loc["main"].batch).text # NoMessage
    /\ LET u == Head(loc["main"].batch) IN
         /\ offset' = OffsetAfter(u.update_id)
         /\ routed' = Append(routed, u.update_id)
         /\ stats' = CountCommand(stats)
         /\ last' = [op |-> u.text, chat |-> u.chat, replies |-> <<>>, ret |-> None,
                     commands |-> CountCommand(stats).total_commands_processed, raised |-> TRUE]
    /\ loc' = [loc EXCEPT !["main"].batch = <<>>]
    /\ pc' = [pc EXCEPT !["main"] = "tick"]
    /\ UNCHANGED <<subscribers, seen_news, now, page, env, inbox, arrived,
                   next_update_id, last_news_check, news_attempts, calls, sched>>

----------------------------------------------------------------------------
(* main(): the scheduler loop.                                             *)

\* the detection cycle is due at every iteration whose sample is one
\* polling interval after the last check
CheckDueEveryPoll(t_now, t_last) == t_now - t_last >= TELEGRAM_POLL_INTERVAL

\* now - last_news_check >= NEWS_INTERVAL
CheckDue(t_now, t_last) == t_now - t_last >= NEWS_INTERVAL

\* now = time.time(); if now - last_news_check >= NEWS_INTERVAL:
\* check_once(storage, stats)
Tick ==
    /\ pc["main"] = "tick"
    /\ IF CheckDue(now, last_news_check)
       THEN /\ pc' = [pc EXCEPT !["main"] = "co_fetch"]
            /\ loc' = [loc EXCEPT !["main"].now = now, !["main"].caller = "sched"]
            /\ sched' = [sample |-> now, prev_sample |-> sched.sample,
                         start |-> now, end |-> None,
                         prev_start |-> sched.start, prev_end |-> sched.end]
       ELSE /\ pc' = [pc EXCEPT !["main"] = "sleep"]
            /\ loc' = [loc EXCEPT !["main"].now = now]
            /\ sched' = [sched EXCEPT !.sample = now, !.prev_sample = sched.sample]
    /\ last' = [op |-> "tick"]
    /\ UNCHANGED <<subscribers, seen_news, stats, now, page, env, inbox, arrived,
                   next_update_id, offset, last_news_check, news_attempts, routed,
                   calls>>

\* time.sleep(TELEGRAM_POLL_INTERVAL), then the next iteration
Sleep ==
    /\ pc["main"] = "sleep"
    /\ now + TELEGRAM_POLL_INTERVAL <= env.max_time
    /\ now' = now + TELEGRAM_POLL_INTERVAL
    /\ pc' = [pc EXCEPT !["main"] = "poll"]
    /\ UNCHANGED <<subscribers, seen_news, stats, page, env, inbox, arrived,
                   next_update_id, offset, last_news_check, loc, news_attempts,
                   routed, calls, sched, last>>

\* the except clause of the loop: time.sleep(TELEGRAM_POLL_INTERVAL), then
\* the next iteration
ErrorSleep ==
    /\ pc["main"] = "error_sleep"
    /\ now + TELEGRAM_POLL_INTERVAL <= env.max_time
    /\ now' = now + TELEGRAM_POLL_INTERVAL
    /\ pc' = [pc EXCEPT !["main"] = "poll"]
    /\ UNCHANGED <<subscribers, seen_news, stats, page, env, inbox, arrived,
                   next_update_id, offset, last_news_check, loc, news_attempts,
                   routed, calls, sched, last>>

\* time.time() when main() starts: last_news_check = 0 lies at least
\* NEWS_INTERVAL before it
StartTime == NEWS_INTERVAL

\* Spec: the program as main() wires it; the process starts with no
\* subscriber, or with the one it loaded from MIMI_SUBSCRIBERS
Init ==
    /\ now = StartTime
    /\ env = [chats |-> {41, 42}, keys |-> {1}, texts |-> AllTexts,
              durations |-> {0}, max_time |-> MaxTime,
              ops |-> [t \in Threads |-> {}]]
    /\ subscribers \in {{}, {FirstChat}}
    /\ pc = [t \in Threads |-> IF t = "main" THEN "poll" ELSE "idle"]
    /\ InitCommon

MainLoop ==
    \/ PollOk
    \/ PollFail
    \/ RouteReturn
    \/ RouteNoMessage
    \/ HandleStart
    \/ HandleStop
    \/ HandleHelp
    \/ HandleLast
    \/ HandleNext
    \/ HandleForce
    \/ ForceReply
    \/ HandleStats
    \/ HandleUnknown
    \/ HandlerRaises
    \/ Tick
    \/ CheckOnceFetch("main")
    \/ CheckOnceRaises("main")
    \/ CheckOnceSeen("main")
    \/ CheckOnceAdd("main")
    \/ BroadcastSnapshot("main")
    \/ BroadcastSend("main")
    \/ BroadcastDone("main")
    \/ Sleep
    \/ ErrorSleep

Next == MainLoop \/ Arrive \/ Publish

Spec == Init /\ [][Next]_vars

\* TimerSpec: the loop with network calls that take time (0 or 1 second),
\* one subscribed chat that sends /force, over a longer stretch of time
TimerInit ==
    /\ now = StartTime
    /\ env = [chats |-> {FirstChat}, keys |-> {1}, texts |-> {"/force"},
              durations |-> {0, 1}, max_time |-> TimerMaxTime,
              ops |-> [t \in Threads |-> {}]]
    /\ subscribers = {FirstChat}
    /\ pc = [t \in Threads |-> IF t = "main" THEN "poll" ELSE "idle"]
    /\ InitCommon

TimerNext ==
    \/ PollOk
    \/ PollFail
    \/ RouteReturn
    \/ HandleForce
    \/ ForceReply
    \/ Tick
    \/ CheckOnceFetch("main")
    \/ CheckOnceRaises("main")
    \/ CheckOnceSeen("main")
    \/ CheckOnceAdd("main")
    \/ BroadcastSnapshot("main")
    \/ BroadcastSend("main")
    \/ BroadcastDone("main")
    \/ Sleep
    \/ ErrorSleep
    \/ Arrive
    \/ Publish

TimerSpec == TimerInit /\ [][TimerNext]_vars

----------------------------------------------------------------------------
(* main(): the operator interrupt.                                         *)

\* the positions at which main() has left its loop: "exited" by the break
\* of the except KeyboardInterrupt clause, "terminated" by a
\* KeyboardInterrupt that no clause caught
Terminal == {"exited", "terminated"}

\* the clause of the loop's try statement that catches a KeyboardInterrupt
\* raised at position p: none for the sleep inside the except Exception
\* clause, the except KeyboardInterrupt clause everywhere else (no callee
\* catches more than Exception)
InterruptCaught(p) == p # "error_sleep"

\* KeyboardInterrupt reaches the main thread while the loop runs: the
\* except KeyboardInterrupt clause calls storage._save_to_temp_files() and
\* breaks; uncaught, the exception ends main() at once
Interrupt ==
    /\ "interrupt" \in env.ops["main"]
    /\ pc["main"] \notin Terminal
    /\ pc' = [pc EXCEPT !["main"] = IF InterruptCaught(pc["main"]) THEN "exited"
                                    ELSE "terminated"]
    /\ last' = [op |-> "interrupt", at |-> pc["main"],
                flushed |-> InterruptCaught(pc["main"])]
    /\ UNCHANGED <<subscribers, seen_news, stats, now, page, env, inbox, arrived,
                   next_update_id, offset, last_news_check, loc, news_attempts, routed,
                   calls, sched>>

\* LoopSpec: the loop of main() with no inbound command, detection cycles
\* that return or raise, and an operator who may interrupt at any time
LoopInit ==
    /\ now = StartTime
    /\ env = [chats |-> {FirstChat}, keys |-> {1}, texts |-> {},
              durations |-> {0}, max_time |-> TimerMaxTime,
              ops |-> [t \in Threads |-> IF t = "main" THEN {"interrupt"} ELSE {}]]
    /\ subscribers = {FirstChat}
    /\ pc = [t \in Threads |-> IF t = "main" THEN "poll" ELSE "idle"]
    /\ InitCommon

\* the statements of the loop that are reached with no inbound command
LoopBody ==
    \/ PollOk
    \/ PollFail
    \/ RouteReturn
    \/ Tick
    \/ CheckOnceFetch("main")
    \/ CheckOnceRaises("main")
    \/ CheckOnceSeen("main")
    \/ CheckOnceAdd("main")
    \/ BroadcastSnapshot("main")
    \/ BroadcastSend("main")
    \/ BroadcastDone("main")
    \/ Sleep
    \/ ErrorSleep

LoopNext == LoopBody \/ Publish \/ Interrupt

\* every statement of the loop ends: the network calls have timeouts
LoopSpec == LoopInit /\ [][LoopNext]_vars /\ WF_vars(LoopBody)

----------------------------------------------------------------------------
(* KeepAliveHandler, run by the thread of the keep-alive server.           *)

\* do_GET: self.server.stats.keep_alive_hits += 1, outside any lock
DoGetIncrement ==
    /\ pc["aux"] = "idle"
    /\ "do_GET" \in env.ops["aux"]
    /\ stats.keep_alive_hits < MaxHits
    /\ stats' = [stats EXCEPT !.keep_alive_hits = @ + 1]
    /\ pc' = [pc EXCEPT !["aux"] = "get_save"]
    /\ UNCHANGED <<subscribers, seen_news, now, page, env, inbox, arrived, next_update_id,
                   offset, last_news_check, loc, news_attempts, routed, calls, sched,
                   last>>

\* do_GET: self.server.storage.save_stats(self.server.stats) binds the
\* same record again under the lock; the page it then renders from
\* get_summary and the stats changes nothing
DoGetRespond ==
    /\ pc["aux"] = "get_save"
    /\ pc' = [pc EXCEPT !["aux"] = "idle"]
    /\ UNCHANGED <<subscribers, seen_news, stats, now, page, env, inbox, arrived,
                   next_update_id, offset, last_news_check, loc, news_attempts, routed,
                   calls, sched, last>>

\* HealthSpec: main() from its start to its second poll, with one chat
\* that is subscribed and sends every command, while the keep-alive server
\* answers requests
HealthInit ==
    /\ now = StartTime
    /\ env = [chats |-> {FirstChat}, keys |-> {1}, texts |-> AllTexts,
              durations |-> {0}, max_time |-> StartTime + TELEGRAM_POLL_INTERVAL,
              ops |-> [t \in Threads |-> IF t = "aux" THEN {"do_GET"} ELSE {}]]
    /\ subscribers = {FirstChat}
    /\ pc = [t \in Threads |-> IF t = "main" THEN "poll" ELSE "idle"]
    /\ InitCommon

HealthNext == Next \/ DoGetIncrement \/ DoGetRespond

HealthSpec == HealthInit /\ [][HealthNext]_vars

----------------------------------------------------------------------------
(* Claims about the detection cycle, the broadcast and the commands.       *)

\* the statements of check_once that follow the seen test
AfterSeenTest == {"co_add", "bc_snap", "bc_send", "bc_done"}

\* C1: a detection cycle that extracts an item whose key is not in the
\* seen history marks it seen and sends it once to every chat subscribed at
\* that time; a cycle that meets the same content again sends nothing and
\* leaves the seen history as it was.
C1_DetectionCycleDedup ==
    [][/\ (pc["main"] = "co_seen" /\ ~InSeq(loc["main"].item, seen_news))
              => pc'["main"] = "co_add"
       /\ pc["main"] = "co_add"
              => InSeq(loc["main"].item, seen_news') /\ pc'["main"] = "bc_snap"
       /\ (pc["main"] = "bc_done" /\ pc'["main"] # "bc_done")
              => /\ InSeq(loc["main"].item, seen_news')
                 /\ \A c \in Chats :
                      news_attempts'[loc["main"].item][c]
                          = IF c \in subscribers' THEN 1 ELSE 0
       /\ (pc["main"] = "co_seen" /\ InSeq(loc["main"].item, seen_news))
              => /\ pc'["main"] \notin AfterSeenTest
                 /\ seen_news' = seen_news
                 /\ news_attempts' = news_attempts
       /\ \A k \in Keys, c \in Chats : news_attempts'[k][c] <= 1]_vars

\* a cycle found the item seen that an earlier cycle had sent to a chat
C1_Witness ==
    /\ last.op = "check_once"
    /\ last.outcome = "seen"
    /\ \E c \in subscribers : news_attempts[last.item][c] = 1

\* C3: check and insert are one atomic step, so that concurrent detection
\* cycles on the same unseen item send it to a chat at most once.
C3_BroadcastAtMostOnce ==
    \A k \in Keys, c \in Chats : news_attempts[k][c] <= 1

\* the update the for loop of poll_updates is at
Current == Head(loc["main"].batch)

\* the step is a handler of `text` that ran to its end
HandlerStep(text) ==
    /\ Dispatch(text)
    /\ Len(routed') = Len(routed) + 1
    /\ ~last'.raised

\* C4: /start subscribes an unsubscribed chat and sends the welcome text,
\* and only answers "already subscribed" to a subscribed one; /stop
\* unsubscribes a subscribed chat and sends the confirmation, and only
\* answers "not subscribed" to an unsubscribed one.
C4_SubscriptionStateMachine ==
    [][/\ HandlerStep("/start") =>
             IF Current.chat \notin subscribers
             THEN /\ subscribers' = subscribers \cup {Current.chat}
                  /\ Head(last'.replies) = "welcome"
             ELSE /\ subscribers' = subscribers
                  /\ last'.replies = <<"already_subscribed">>
       /\ HandlerStep("/stop") =>
             IF Current.chat \in subscribers
             THEN /\ subscribers' = subscribers \ {Current.chat}
                  /\ last'.replies = <<"bye">>
             ELSE /\ subscribers' = subscribers
                  /\ last'.replies = <<"not_subscribed">>]_vars

\* chat 42, which no process starts with, sent /start twice, or /start,
\* /stop and /stop
C4_Witness ==
    /\ last.op \in {"/start", "/stop"}
    /\ last.chat = 42
    /\ \/ last.replies = <<"already_subscribed">> /\ 42 \in subscribers
       \/ /\ last.replies = <<"not_subscribed">>
          /\ Len(routed) = 3
          /\ 42 \notin subscribers

\* C5: the cursor never decreases; the updates dispatched are inbound
\* messages, each dispatched once and in the order of their update_ids; no
\* message below the cursor was left out.
C5_CursorAndRouting ==
    [][/\ OffsetVal(offset') >= OffsetVal(offset)
       /\ \A i, j \in 1..Len(routed') : i < j => routed'[i] < routed'[j]
       /\ \A i \in 1..Len(routed') : routed'[i] \in arrived'
       /\ \A id \in arrived' : id < OffsetVal(offset') => InSeq(id, routed')]_vars

\* a handler raised on a message while a later update of the batch waits
\* for the next poll
C5_Witness ==
    /\ last.op \in AllTexts
    /\ last.raised
    /\ Len(routed) >= 1
    /\ \E i \in 1..Len(inbox) : inbox[i].update_id >= OffsetVal(offset)

\* C6: broadcast adds to total_news_sent the number of chats whose
\* delivery succeeded and stamps last_news_time, once, when its loop has
\* ended; the passes of the loop leave the stats alone.
C6_BroadcastCounting ==
    [][/\ (pc["main"] = "bc_done" /\ pc'["main"] # "bc_done")
              => /\ stats'.total_news_sent
                      = stats.total_news_sent + Cardinality(loc["main"].delivered)
                 /\ stats'.last_news_time = now
       /\ pc["main"] \in {"bc_snap", "bc_send"} => stats' = stats]_vars

\* three subscribers, the delivery to one of them failed, the counter went
\* up by 2
C6_Witness ==
    /\ last.op = "check_once"
    /\ last.outcome = "broadcast"
    /\ Cardinality(last.recipients) = 3
    /\ Cardinality(last.delivered) = 2
    /\ stats.total_news_sent = last.sent_before + 2

\* C7: when the loop of broadcast has ended, delivery was attempted once
\* to each chat of the list taken at its start and to no other chat,
\* whatever deliveries failed and whatever the registry became meanwhile.
C7_BroadcastSnapshot ==
    /\ pc["main"] = "bc_done" =>
          /\ loc["main"].attempted = loc["main"].subscribers
          /\ \A c \in Chats :
               news_attempts[loc["main"].item][c]
                   = IF c \in loc["main"].subscribers THEN 1 ELSE 0
    /\ pc["main"] = "bc_send" =>
          /\ loc["main"].attempted \subseteq loc["main"].subscribers
          /\ \A c \in Chats :
               news_attempts[loc["main"].item][c]
                   = IF c \in loc["main"].attempted THEN 1 ELSE 0

\* the loop ended after a failed delivery, with a chat added to and a chat
\* removed from the registry since the list was taken
C7_Witness ==
    /\ pc["main"] = "bc_done"
    /\ Cardinality(loc["main"].subscribers) >= 2
    /\ loc["main"].delivered # loc["main"].attempted
    /\ loc["main"].delivered # {}
    /\ subscribers \ loc["main"].subscribers # {}
    /\ loc["main"].subscribers \ subscribers # {}

\* a scheduled cycle has just been started, after an earlier one that
\* returned
ScheduledCycleStarts ==
    /\ pc["main"] = "co_fetch"
    /\ loc["main"].caller = "sched"
    /\ sched.prev_start # None
    /\ sched.prev_end # None

\* C8, as claimed: at least NEWS_INTERVAL lies between the end of a
\* scheduled cycle and the start of the next, which is at most one polling
\* interval late.
C8_IntervalFromCycleEnd ==
    ScheduledCycleStarts =>
        /\ sched.start - sched.prev_end >= NEWS_INTERVAL
        /\ sched.start - (sched.prev_end + NEWS_INTERVAL) <= TELEGRAM_POLL_INTERVAL

\* C8, amended: at least NEWS_INTERVAL lies between the start of a
\* scheduled cycle and the start of the next; the cycle was not yet due at
\* the loop's previous time sample, so it is late by less than the length
\* of one loop iteration.
C8_IntervalFromCycleStart ==
    ScheduledCycleStarts =>
        /\ sched.start - sched.prev_start >= NEWS_INTERVAL
        /\ sched.start - (sched.prev_start + NEWS_INTERVAL)
              < sched.start - sched.prev_sample

\* a second scheduled cycle starts more than one polling interval after
\* it became due, the loop having sampled the time in between
C8_Witness ==
    /\ ScheduledCycleStarts
    /\ sched.start - (sched.prev_start + NEWS_INTERVAL) > TELEGRAM_POLL_INTERVAL
    /\ sched.prev_sample # sched.prev_start

----------------------------------------------------------------------------
(* Claims about the registry, the frame of the commands and the errors.    *)

\* how often chat c appears in the list get_subscribers returns
TimesListed(c, subs) ==
    Cardinality({i \in 1..Len(GetSubscribers(subs)) : GetSubscribers(subs)[i] = c})

\* C11: after add_subscriber(c), is_subscriber(c) is true and c is listed
\* once; add_subscriber(c) returns False when c was present; after
\* remove_subscriber(c), is_subscriber(c) is false; remove_subscriber(c)
\* returns False and changes nothing when c was absent.
C11_RegistryRoundTrip ==
    [][/\ (last' # last /\ last'.op = "add_subscriber") =>
             LET c == last'.chat IN
               /\ IsSubscriber(subscribers', c)
               /\ TimesListed(c, subscribers') = 1
               /\ last'.ret = (c \notin subscribers)
               /\ c \in subscribers => subscribers' = subscribers
       /\ (last' # last /\ last'.op = "remove_subscriber") =>
             LET c == last'.chat IN
               /\ ~IsSubscriber(subscribers', c)
               /\ TimesListed(c, subscribers') = 0
               /\ last'.ret = (c \in subscribers)
               /\ c \notin subscribers => subscribers' = subscribers]_vars

\* a chat that was subscribed was added again, beside two other chats
C11_Witness ==
    /\ last.op = "add_subscriber"
    /\ last.ret = FALSE
    /\ Cardinality(subscribers) = 3
    /\ TimesListed(last.chat, subscribers) = 1

\* C12: the subscriber set changes only in the handling of a /start or a
\* /stop message: no other command, no detection cycle, no broadcast and
\* no request to the health endpoint changes it.
C12_SubscribersFrame ==
    [][subscribers' # subscribers =>
          /\ pc["main"] = "route"
          /\ loc["main"].batch # <<>>
          /\ Current.text \in {"/start", "/stop"}
          /\ pc'["aux"] = pc["aux"]]_vars

\* a /force cycle broadcast to the one subscribed chat and the health
\* endpoint served requests, the registry being what it was at startup
C12_Witness ==
    /\ last.op = "/force"
    /\ "cycle" \in DOMAIN last
    /\ last.cycle = "broadcast"
    /\ stats.keep_alive_hits > 0
    /\ stats.total_commands_processed = 2
    /\ subscribers = {FirstChat}

\* C20: no step of the health-endpoint thread writes a field of the stats
\* record.
C20_StatsWrittenByLoopOnly ==
    [][pc'["aux"] # pc["aux"] => stats' = stats]_vars

\* C13: the seen history changes only at the add_seen_news of a detection
\* cycle; /last and /start leave it and the broadcasts alone, and show the
\* item of the page whether or not it is in the seen history; a cycle that
\* then finds the item unseen goes on to broadcast it.
C13_LastAndPreviewFrame ==
    [][/\ seen_news' # seen_news => pc["main"] = "co_add"
       /\ (HandlerStep("/last") \/ HandlerStep("/start"))
              => seen_news' = seen_news /\ news_attempts' = news_attempts
       /\ (HandlerStep("/last") /\ page # NoItem)
              => last'.replies[2] \in {"last_item", "last_error"}
       /\ (HandlerStep("/start") /\ Current.chat \notin subscribers /\ page # NoItem)
              => last'.replies[3] \in {"preview_item", "preview_error"}
       /\ (pc["main"] = "co_seen" /\ ~InSeq(loc["main"].item, seen_news))
              => pc'["main"] = "co_add"]_vars

\* /last showed the item that a detection cycle had broadcast before
C13_Witness ==
    /\ last.op = "/last"
    /\ ~last.raised
    /\ last.replies = <<"last_searching", "last_item">>
    /\ page # NoItem
    /\ InSeq(page, seen_news)
    /\ news_attempts[page][FirstChat] = 1

\* a /force cycle has returned and the handler has sent its second reply
ForceReplied == last.op = "/force" /\ "cycle" \in DOMAIN last

\* C14, as claimed: the reply /force sends after a cycle that found nothing
\* new differs from the reply it sends after a cycle that broadcast an item.
C14_ReplyTellsOutcome ==
    (ForceReplied /\ last.cycle \in {"seen", "no_item"})
        => last.replies[2] # ForceReplyText("broadcast")

\* C14, amended: /force runs check_once synchronously and then sends the
\* same completion text whether the cycle broadcast an item or found
\* nothing new.
C14_ForceReplyFixed ==
    [][(pc["main"] = "force_reply" /\ pc'["main"] # "force_reply") =>
          /\ last.op = "check_once"
          /\ last.outcome \in {"broadcast", "seen", "no_item"}
                => last'.replies = <<"force_started", "force_completed">>
          /\ last.outcome = "broadcast"
                => \A c \in last.recipients : news_attempts[last.item][c] = 1]_vars

\* /force ran a cycle that broadcast the item to the subscribed chat and
\* answered with the completion text
C14_Witness ==
    /\ ForceReplied
    /\ last.cycle = "broadcast"
    /\ last.replies = <<"force_started", "force_completed">>
    /\ \E c \in subscribers : news_attempts[1][c] = 1

\* C15: when the page fetch fails inside /force, the chat gets the error
\* text of the handler, not its completion text, and the router goes on to
\* the next update; /last answers a failed fetch with its error text and
\* the router goes on.
C15_FetchFailureApology ==
    [][/\ (/\ pc["main"] = "force_reply"
           /\ pc'["main"] # "force_reply"
           /\ last.outcome = "fetch_error")
              => /\ last'.replies = <<"force_started", "force_error">>
                 /\ pc'["main"] = "route"
       /\ (Dispatch("/last") /\ routed' # routed /\ last'.replies # <<>>)
              => /\ last'.replies[2] \in {"last_error", "last_none", "last_item"}
                 /\ ~last'.raised
                 /\ pc'["main"] = "route"]_vars

\* C16: a detection cycle whose fetch failed or whose extract found no
\* item has, when it returns, stamped last_error_time, sent nothing and
\* left total_news_sent alone.
C16_FailedCycleStamps ==
    (/\ last.op = "check_once"
     /\ last.outcome \in {"fetch_error", "no_item"}
     /\ pc["main"] \in {"sleep", "force_reply"})
        => /\ stats.last_error_time = now
           /\ stats.total_news_sent = last.sent_before
           /\ last.delivered = {}

\* C17: a scheduled cycle that follows an earlier one, whether that one
\* returned, failed or raised, starts at least NEWS_INTERVAL after it.
C17_NoImmediateRetry ==
    (/\ pc["main"] = "co_fetch"
     /\ loc["main"].caller = "sched"
     /\ sched.prev_start # None)
        => sched.start - sched.prev_start >= NEWS_INTERVAL

\* the model's clock cannot advance by another sleep
Horizon == now + TELEGRAM_POLL_INTERVAL > env.max_time

\* C18: an exception that leaves check_once in a scheduled cycle is caught
\* by the loop, which stamps last_error_time, sleeps the short interval and
\* polls again; main() leaves the loop only on an operator interrupt; as
\* long as it is not interrupted, every poll is followed by the sleep of
\* its iteration and every sleep by the next poll.
C18_LoopContinues ==
    /\ [][/\ (/\ pc["main"] = "co_fetch"
              /\ loc["main"].caller = "sched"
              /\ last'.op = "check_once"
              /\ last'.outcome = "raised")
                 => /\ stats'.last_error_time = now'
                    /\ pc'["main"] = "error_sleep"
          /\ (pc["main"] = "error_sleep" /\ pc'["main"] # "error_sleep")
                 => \/ pc'["main"] = "poll" /\ now' = now + TELEGRAM_POLL_INTERVAL
                    \/ last'.op = "interrupt"
          /\ (pc'["main"] \in Terminal /\ pc["main"] \notin Terminal)
                 => last'.op = "interrupt"]_vars
    /\ (pc["main"] = "poll")
          ~> (pc["main"] \in {"sleep", "error_sleep"} \/ pc["main"] \in Terminal)
    /\ (pc["main"] \in {"sleep", "error_sleep"})
          ~> (pc["main"] = "poll" \/ pc["main"] \in Terminal \/ Horizon)

\* the loop polls again after an iteration whose detection cycle raised
C18_Witness ==
    /\ pc["main"] = "poll"
    /\ last.op = "check_once"
    /\ last.outcome = "raised"
    /\ stats.last_error_time = now - TELEGRAM_POLL_INTERVAL
    /\ sched.start = stats.last_error_time

\* C19: whenever main() has left its loop on an operator interrupt, it has
\* flushed the subscriber set and the seen history to storage.
C19_InterruptFlushes ==
    pc["main"] \in Terminal => last.op = "interrupt" /\ last.flushed

----------------------------------------------------------------------------
(* Claims about the counters, the preview, the router and the escaping.    *)

\* C21: total_commands_processed is the number of messages dispatched so
\* far, and the handler of a message runs with a counter that already
\* includes that message.
C21_CommandCounter ==
    /\ stats.total_commands_processed = Len(routed)
    /\ last.op \in AllTexts => last.commands = Len(routed)

\* /stats was the second message dispatched and ran with the counter at 2
C21_Witness ==
    /\ last.op = "/stats"
    /\ ~last.raised
    /\ last.commands = 2
    /\ stats.total_commands_processed = 2

\* C22: whenever /start of an unsubscribed chat is about to be handled, the
\* preview can fail, and the handler then still ends with the chat
\* subscribed, the welcome text sent first and the apology sent in place of
\* the preview; no /start of an unsubscribed chat that ran to its end leaves
\* the chat out of the set or skips the welcome text.
C22_PreviewFailureKeepsSubscription ==
    /\ []((/\ Dispatch("/start")
           /\ Current.chat \notin subscribers
           /\ \E d \in env.durations : now + 1 + d <= env.max_time)
              => ENABLED (/\ HandleStart
                          /\ Current.chat \in subscribers'
                          /\ last'.replies = <<"welcome", "preview_notice",
                                               "preview_error">>
                          /\ last'.ret = TRUE))
    /\ [][(HandlerStep("/start") /\ Current.chat \notin subscribers)
              => /\ Current.chat \in subscribers'
                 /\ Len(last'.replies) = 3
                 /\ last'.replies[1] = "welcome"
                 /\ last'.replies[3] \in {"preview_error", "preview_none",
                                           "preview_item"}]_vars

\* /start ended with the apology while the page carried an item, and the
\* chat is subscribed
C22_Witness ==
    /\ last.op = "/start"
    /\ ~last.raised
    /\ last.replies = <<"welcome", "preview_notice", "preview_error">>
    /\ last.chat \in subscribers
    /\ page # NoItem

\* the texts the if/elif chain of poll_updates names
Commands == {"/start", "/stop", "/help", "/last", "/next", "/force", "/stats"}

\* C23: a message whose (trimmed, lower-cased) text is none of the seven
\* commands gets the unknown-command reply, once, in the chat it came from,
\* and its handling changes the command counter and the cursor and nothing
\* else of the registry, the history, the statistics, the timer or the
\* clock.
C23_UnknownCommand ==
    [][(/\ pc["main"] = "route"
        /\ loc["main"].batch # <<>>
        /\ Current.text \notin Commands \cup {NoMessage}
        /\ Len(routed') = Len(routed) + 1
        /\ ~last'.raised)
           => /\ last'.replies = <<"unknown">>
              /\ last'.chat = Current.chat
              /\ stats' = [stats EXCEPT !.total_commands_processed = @ + 1]
              /\ offset' = Current.update_id + 1
              /\ UNCHANGED <<subscribers, seen_news, news_attempts,
                             last_news_check, now, page, pc, sched>>]_vars

\* a text that is no command was answered after another message had been
\* handled, the chat being subscribed
C23_Witness ==
    /\ last.op \notin Commands
    /\ last.op \in AllTexts
    /\ ~last.raised
    /\ last.replies = <<"unknown">>
    /\ stats.total_commands_processed = 2
    /\ last.chat \in subscribers

----------------------------------------------------------------------------
(* Claims about the forced cycle and the timer.                            *)

\* the main thread is inside handle_force_command
InForce ==
    \/ Dispatch("/force")
    \/ loc["main"].caller = "force"
    \/ pc["main"] = "force_reply"

\* C28: no step of a /force, from its dispatch to its second reply, changes
\* last_news_check: only the return of a scheduled cycle does, to the time
\* the loop sampled; so the loop starts a scheduled cycle exactly when
\* NEWS_INTERVAL has passed since that sample, and /next reports
\* NEWS_INTERVAL minus the time since that sample, whatever /force did in
\* between.
C28_ForceLeavesTimer ==
    [][/\ InForce => last_news_check' = last_news_check
       /\ last_news_check' # last_news_check
              => /\ loc["main"].caller = "sched"
                 /\ last_news_check' = loc["main"].now
       /\ (pc["main"] = "tick" /\ pc'["main"] # "tick")
              => (loc'["main"].caller = "sched"
                    <=> now - last_news_check >= NEWS_INTERVAL)
       /\ HandlerStep("/next")
              => last'.ret = Max(0, NEWS_INTERVAL - (now - last_news_check))]_vars

\* /next reported a remaining time counted from the scheduled cycle, after
\* a forced cycle had broadcast an item later than that
C28_Witness ==
    /\ last.op = "/next"
    /\ ~last.raised
    /\ last.ret = NEWS_INTERVAL - TELEGRAM_POLL_INTERVAL
    /\ last_news_check > 0
    /\ stats.last_news_time > last_news_check

----------------------------------------------------------------------------
(* Claims about what a detection cycle leaves behind.                      *)

\* the main thread is inside broadcast(item, ...)
InBroadcast == pc["main"] \in {"bc_snap", "bc_send", "bc_done"}

\* C25: the key of the item is in the seen history during the whole
\* broadcast and no step of the broadcast, whatever it delivered, takes it
\* out; a broadcast starts only from the insertion of an unseen key, and a
\* cycle that finds the key in the history starts none; and while a key is
\* in the history, a chat gets a delivery attempt of that item only as a
\* member of the snapshot of the one broadcast that is running, so a chat
\* that subscribed after the snapshot gets none.
C25_SeenBeforeBroadcast ==
    [][/\ InBroadcast
              => /\ InSeq(loc["main"].item, seen_news)
                 /\ seen_news' = seen_news
       /\ (pc'["main"] = "bc_snap" /\ pc["main"] # "bc_snap")
              => /\ pc["main"] = "co_add"
                 /\ ~InSeq(loc["main"].item, seen_news)
       /\ (pc["main"] = "co_seen" /\ InSeq(loc["main"].item, seen_news))
              => pc'["main"] \notin {"co_add", "bc_snap", "bc_send", "bc_done"}
       /\ \A k \in env.keys, c \in env.chats :
            (/\ InSeq(k, seen_news)
             /\ ~(/\ pc["main"] = "bc_send"
                  /\ loc["main"].item = k
                  /\ c \in loc["main"].subscribers))
                => news_attempts'[k][c] = news_attempts[k][c]]_vars

\* a broadcast reached nobody, a chat subscribed after it, and a later cycle
\* found the key in the history: the chat has had no delivery of the item
C25_Witness ==
    /\ last.op = "check_once"
    /\ last.outcome = "seen"
    /\ stats.last_news_time # None
    /\ stats.total_news_sent = 0
    /\ \E c \in subscribers :
          \A k \in env.keys : news_attempts[k][c] = 0

----------------------------------------------------------------------------
(* EscapeSpec: escape_html applied to a title.  A string is the sequence   *)
(* of its characters.                                                      *)

\* str.replace(old, new) for a one-character `old`
RECURSIVE Replace(_, _, _)
Replace(s, old, new) ==
    IF s = <<>> THEN <<>>
    ELSE (IF Head(s) = old THEN new ELSE <<Head(s)>>) \o Replace(Tail(s), old, new)

Amp == <<"&", "a", "m", "p", ";">>
Lt == <<"&", "l", "t", ";">>
Gt == <<"&", "g", "t", ";">>

\* the three replacements with the ampersand taken last
escape_html_amp_last(s) ==
    Replace(Replace(Replace(s, "<", Lt), ">", Gt), "&", Amp)

\* s.replace("&", "&amp;").replace("<", "&lt;").replace(">", "&gt;")
escape_html(s) ==
    Replace(Replace(Replace(s, "&", Amp), "<", Lt), ">", Gt)

\* the characters of the titles: the three escaped ones and a plain one
TitleChars == {"&", "<", ">", "a"}

\* the title A & B <script>
ScriptTitle == <<"A", " ", "&", " ", "B", " ", "<", "s", "c", "r", "i", "p", "t", ">">>

RECURSIVE TitlesOfLen(_)
TitlesOfLen(n) ==
    IF n = 0 THEN {<<>>}
    ELSE {<<c>> \o t : c \in TitleChars, t \in TitlesOfLen(n - 1)}

\* item.title: every title of up to MaxTitle characters, and the script one
Titles == UNION {TitlesOfLen(n) : n \in 0..MaxTitle} \cup {ScriptTitle}

EscapeInit ==
    /\ now = 0
    /\ subscribers = {}
    /\ env = [chats |-> {}, keys |-> {}, texts |-> {}, durations |-> {0},
              max_time |-> 0, ops |-> [t \in Threads |-> {}]]
    /\ pc = [t \in Threads |-> "idle"]
    /\ seen_news = <<>>
    /\ stats = InitStats(now)
    /\ page = NoItem
    /\ inbox = <<>>
    /\ arrived = {}
    /\ next_update_id = 1
    /\ offset = None
    /\ last_news_check = 0
    /\ loc = [t \in Threads |-> NoLocals]
    /\ news_attempts = NoAttempts
    /\ routed = <<>>
    /\ calls = <<>>
    /\ sched = NoSched
    /\ \E t \in Titles : last = [op |-> "title", s |-> t]

\* escape_html(item.title)
CallEscapeHtml ==
    /\ last.op = "title"
    /\ last' = [op |-> "escape_html", s |-> last.s, ret |-> escape_html(last.s)]
    /\ UNCHANGED <<subscribers, seen_news, stats, now, page, env, inbox, arrived,
                   next_update_id, offset, last_news_check, pc, loc, news_attempts,
                   routed, calls, sched>>

EscapeNext == CallEscapeHtml

EscapeSpec == EscapeInit /\ [][EscapeNext]_vars

\* one character escaped once
EscapedOnce(c) ==
    CASE c = "&" -> Amp
      [] c = "<" -> Lt
      [] c = ">" -> Gt
      [] OTHER -> <<c>>

RECURSIVE EachEscapedOnce(_)
EachEscapedOnce(s) ==
    IF s = <<>> THEN <<>> ELSE EscapedOnce(Head(s)) \o EachEscapedOnce(Tail(s))

\* the text A &amp; B &lt;script&gt;
ScriptEscaped == <<"A", " ", "&", "a", "m", "p", ";", " ", "B", " ", "&", "l", "t", ";", "s", "c", "r", "i", "p", "t", "&", "g", "t", ";">>

\* C24: escape_html returns the title with each of its characters &, < and
\* > replaced once by its entity and every other character kept, so no
\* character of an inserted entity is replaced again; the title
\* A & B <script> becomes A &amp; B &lt;script&gt;.
C24_EscapedOnce ==
    last.op = "escape_html" =>
        /\ last.ret = EachEscapedOnce(last.s)
        /\ last.s = ScriptTitle => last.ret = ScriptEscaped

\* the script title has been escaped
C24_Witness ==
    /\ last.op = "escape_html"
    /\ last.s = ScriptTitle
    /\ last.ret = ScriptEscaped

----------------------------------------------------------------------------
(* EvictSpec: sequential detection cycles on a page that shows one new    *)
(* item after another, and now and then an item it showed before.          *)

\* the site puts an item that it never showed on top of the page
PublishFresh ==
    /\ pc["main"] = "idle"
    /\ FreshKey <= MaxKey
    /\ page # FreshKey
    /\ page' = FreshKey
    /\ UNCHANGED <<subscribers, seen_news, stats, now, env, inbox, arrived,
                   next_update_id, offset, last_news_check, pc, loc, news_attempts,
                   routed, calls, sched, last>>

\* the site puts an item that it showed before on top of the page again
PublishRepeat ==
    /\ pc["main"] = "idle"
    /\ Repeats < MaxRepeat
    /\ RepeatWindow
    /\ \E k \in RepeatKeys \ {page} : page' = k
    /\ UNCHANGED <<subscribers, seen_news, stats, now, env, inbox, arrived,
                   next_update_id, offset, last_news_check, pc, loc, news_attempts,
                   routed, calls, sched, last>>

EvictInit ==
    /\ now = 0
    /\ env = [chats |-> {}, keys |-> 1..MaxKey, texts |-> {},
              durations |-> {0}, max_time |-> 0,
              ops |-> [t \in Threads |-> IF t = "main" THEN {"check_once"} ELSE {}]]
    \* nobody is subscribed: every broadcast runs and delivers nothing
    /\ subscribers = {}
    /\ pc = [t \in Threads |-> "idle"]
    /\ seen_news = <<>>
    /\ stats = InitStats(now)
    /\ page = NoItem
    /\ inbox = <<>>
    /\ arrived = {}
    /\ next_update_id = 1
    /\ offset = None
    /\ last_news_check = 0
    /\ loc = [t \in Threads |-> NoLocals]
    /\ news_attempts = NoAttempts
    /\ routed = <<>>
    /\ calls = <<>>
    /\ sched = NoSched
    /\ last = [op |-> "init"]

EvictNext ==
    \/ PublishFresh
    \/ PublishRepeat
    \/ CallCheckOnce("main")
    \/ CheckOnceFetch("main")
    \/ CheckOnceRaises("main")
    \/ CheckOnceSeen("main")
    \/ CheckOnceAdd("main")
    \/ BroadcastSnapshot("main")
    \/ BroadcastSend("main")
    \/ BroadcastDone("main")

EvictSpec == EvictInit /\ [][EvictNext]_vars

\* the distinct keys other than calls[i] marked seen between the i-th and
\* the j-th mark
MarkedBetween(i, j) == {calls[m] : m \in (i + 1)..(j - 1)} \ {calls[i]}

\* C26: a detection cycle marks a key seen exactly when it goes on to
\* broadcast it, and whenever one key was marked (and so broadcast) twice,
\* at least 50 other distinct keys were marked between the two.
C26_RebroadcastOnlyAfterEviction ==
    /\ \A i, j \in 1..Len(calls) :
          (i < j /\ calls[i] = calls[j])
              => Cardinality(MarkedBetween(i, j)) >= SEEN_CAP
    /\ pc["main"] \in {"bc_snap", "bc_send", "bc_done"}
          => calls # <<>> /\ calls[Len(calls)] = loc["main"].item

\* a key was broadcast, evicted by 50 others and broadcast again
C26_Witness ==
    /\ Repeats > 0
    /\ last.op = "check_once"
    /\ last.outcome = "broadcast"
    /\ \E i \in 1..(Len(calls) - 1) :
          /\ calls[i] = last.item
          /\ calls[Len(calls)] = last.item
          /\ Cardinality(MarkedBetween(i, Len(calls))) = SEEN_CAP

----------------------------------------------------------------------------
(* LoadSpec: InMemoryStorageManager(), which loads the registry and the    *)
(* history from MIMI_SUBSCRIBERS, MIMI_SEEN_NEWS and the temp files.       *)

\* a temp file: whether it exists, and what json.load reads from it
File(data) == [exists |-> TRUE, data |-> data]
NoFile(empty) == [exists |-> FALSE, data |-> empty]

\* the keys a stored list names
LoadKeys == {1, 2}

RECURSIVE ListsOfLen(_)
ListsOfLen(n) ==
    IF n = 0 THEN {<<>>}
    ELSE {<<k>> \o l : k \in LoadKeys, l \in ListsOfLen(n - 1)}

\* seen_env.split(",") and json.load(seen.json): what the operator or an
\* earlier run stored, in any order and number; and one list longer than
\* the history may get
StoredLists ==
    UNION {ListsOfLen(n) : n \in 0..MaxLoad}
        \cup {[i \in 1..(SEEN_CAP + 1) |-> i]}

\* set(map(int, subscribers_env.split(","))) and set(json.load(...))
StoredSets == SUBSET {41, 42}

\* _load_from_env_and_temp and _load_from_temp_files, the history: the
\* list of MIMI_SEEN_NEWS cut at 50, replaced by the list of seen.json cut
\* at 50 when that list is longer
LoadSeenNews(seen_env, temp_seen) ==
    LET from_env == IF seen_env # <<>> THEN Take(seen_env, SEEN_CAP) ELSE <<>> IN
      IF temp_seen.exists /\ Len(temp_seen.data) > Len(from_env)
      THEN Take(temp_seen.data, SEEN_CAP)
      ELSE from_env

\* the same, the registry: the set of MIMI_SUBSCRIBERS, joined with the
\* set of subscribers.json when that set is larger
LoadSubscribers(subscribers_env, temp_subs) ==
    IF temp_subs.exists /\ Cardinality(temp_subs.data) > Cardinality(subscribers_env)
    THEN subscribers_env \cup temp_subs.data
    ELSE subscribers_env

\* the state at the call of _load_from_env_and_temp in __init__: empty
\* registry and history, and the environment the process was started in
LoadInit ==
    /\ now = 0
    /\ subscribers = {}
    /\ env = [chats |-> {41, 42}, keys |-> LoadKeys, texts |-> {}, durations |-> {0},
              max_time |-> 0, ops |-> [t \in Threads |-> {}]]
    /\ pc = [t \in Threads |-> "idle"]
    /\ seen_news = <<>>
    /\ stats = InitStats(now)
    /\ page = NoItem
    /\ inbox = <<>>
    /\ arrived = {}
    /\ next_update_id = 1
    /\ offset = None
    /\ last_news_check = 0
    /\ loc = [t \in Threads |-> NoLocals]
    /\ news_attempts = NoAttempts
    /\ routed = <<>>
    /\ calls = <<>>
    /\ sched = NoSched
    /\ \E se \in StoredLists,
          ts \in {File(l) : l \in StoredLists} \cup {NoFile(<<>>)},
          sb \in StoredSets,
          tb \in {File(b) : b \in StoredSets} \cup {NoFile({})} :
          last = [op |-> "__init__", seen_env |-> se, temp_seen |-> ts,
                  subscribers_env |-> sb, temp_subs |-> tb]

\* self._load_from_env_and_temp()
LoadFromEnvAndTemp ==
    /\ last.op = "__init__"
    /\ subscribers' = LoadSubscribers(last.subscribers_env, last.temp_subs)
    /\ seen_news' = LoadSeenNews(last.seen_env, last.temp_seen)
    /\ last' = [last EXCEPT !.op = "_load_from_env_and_temp"]
    /\ UNCHANGED <<stats, now, page, env, inbox, arrived, next_update_id, offset,
                   last_news_check, pc, loc, news_attempts, routed, calls, sched>>

LoadNext == LoadFromEnvAndTemp

LoadSpec == LoadInit /\ [][LoadNext]_vars

\* C27: the history the startup load leaves has at most 50 entries and no
\* key twice.
C27_LoadedHistoryInvariant ==
    last.op = "_load_from_env_and_temp" =>
        /\ Len(seen_news) <= SEEN_CAP
        /\ NoDuplicates(seen_news)

====
